---- MODULE Spec2Model ----
(***************************************************************************)
(* A model of git-chglog's commit pipeline:                                *)
(*   - commitFilter            (src/commit_filter.go)                      *)
(*   - commitExtractor.Extract (src/commit_extractor.go)                   *)
(*   - commitParser.Parse      (src/unnamed/part_000)                      *)
(* Strings are sequences of characters, so that strings.ToLower and the    *)
(* lexicographic "<" are computed, not assumed.  Pointers are modelled by  *)
(* an id field: two records with the same id are the same object.          *)
(***************************************************************************)
EXTENDS Integers, Sequences, FiniteSets, TLC

(***************************************************************************)
(* Bounds of the model.                                                    *)
(***************************************************************************)
\* longest input of Extract drawn from the commit pool
MaxCommits == 3
\* longest configured CommitGroupTitleOrder list
MaxOrder == 3
\* longest body (in lines) of a record of the log
MaxBody == 3
\* most records in a log of several records
MaxRecords == 3
\* length of the run of identical commits put before the input of
\* ExtractLong, so that a group grows past one block of sort.SliceStable
PadLen == 18

(***************************************************************************)
(* Strings.                                                                *)
(***************************************************************************)
\* the value of a nil pointer / an absent optional
Nil == "nil"

\* code points of the characters used (ASCII)
Code(c) ==
    CASE c = " " -> 32
      [] c = "A" -> 65
      [] c = "B" -> 66
      [] c = "F" -> 70
      [] c = "a" -> 97
      [] c = "b" -> 98
      [] c = "e" -> 101
      [] c = "f" -> 102
      [] c = "g" -> 103
      [] c = "i" -> 105
      [] c = "s" -> 115
      [] c = "t" -> 116
      [] c = "u" -> 117
      [] c = "x" -> 120

\* strings.ToLower on one character
ToLowerChar(c) ==
    CASE c = "A" -> "a"
      [] c = "B" -> "b"
      [] c = "F" -> "f"
      [] OTHER -> c

\* the upper-case form of one character (unicode.ToTitle)
ToUpperChar(c) ==
    CASE c = "a" -> "A"
      [] c = "b" -> "B"
      [] c = "f" -> "F"
      [] OTHER -> c

\* strings.ToLower
ToLower(s) == [i \in 1..Len(s) |-> ToLowerChar(s[i])]

\* strings.Title: the first letter of every word in upper case
StringsTitle(s) ==
    [i \in 1..Len(s) |->
        IF i = 1 \/ s[i - 1] = " " THEN ToUpperChar(s[i]) ELSE s[i]]

\* Go's s < t on strings: lexicographic by code point
RECURSIVE StrLess(_, _)
StrLess(s, t) ==
    IF t = <<>> THEN FALSE
    ELSE IF s = <<>> THEN TRUE
    ELSE IF Code(s[1]) < Code(t[1]) THEN TRUE
    ELSE IF Code(s[1]) > Code(t[1]) THEN FALSE
    ELSE StrLess(Tail(s), Tail(t))

sEmpty == <<>>
sFeat == <<"f", "e", "a", "t">>
sFeatCap == <<"F", "e", "a", "t">>
sFix == <<"f", "i", "x">>
sA == <<"a">>
sACap == <<"A">>
sB == <<"b">>
sBugFixes == <<"B", "u", "g", " ", "F", "i", "x", "e", "s">>

(***************************************************************************)
(* Dynamic field access and comparison (utils, modelled from section 4.1   *)
(* of the specification).  A path is the list of its dot-separated names.  *)
(* The result is [ok, kind, val]: kind "string" for a Go string, "other"   *)
(* for any value that is not a string.                                     *)
(***************************************************************************)
NotFound == [ok |-> FALSE, kind |-> "none", val |-> <<>>]
FoundStr(s) == [ok |-> TRUE, kind |-> "string", val |-> s]
FoundOther == [ok |-> TRUE, kind |-> "other", val |-> <<>>]

pType == <<"Type">>
pScope == <<"Scope">>
pHash == <<"Hash">>
pJiraSummary == <<"JiraIssue", "Summary">>
pNope == <<"Nope">>
pRawTitle == <<"RawTitle">>
pTitle == <<"Title">>
pCommits == <<"Commits">>

\* dotGet on a *Commit
dotGetCommit(commit, path) ==
    IF path = pType THEN FoundStr(commit.Type)
    ELSE IF path = pScope THEN FoundStr(commit.Scope)
    ELSE IF path = pHash THEN FoundOther
    ELSE IF path = pJiraSummary
        THEN IF commit.JiraIssue = Nil THEN NotFound
             ELSE FoundStr(commit.JiraIssue)
    ELSE NotFound

\* dotGet on a *CommitGroup
dotGetGroup(group, path) ==
    IF path = pRawTitle THEN FoundStr(group.RawTitle)
    ELSE IF path = pTitle THEN FoundStr(group.Title)
    ELSE IF path = pCommits THEN FoundOther
    ELSE NotFound

\* compare(a, "<", b): [res, err]
compareLess(a, b) ==
    IF a.kind = "string" /\ b.kind = "string"
    THEN [res |-> StrLess(a.val, b.val), err |-> FALSE]
    ELSE [res |-> FALSE, err |-> TRUE]

(***************************************************************************)
(* Generic helpers.                                                        *)
(***************************************************************************)
Range(s) == {s[i] : i \in 1..Len(s)}

RECURSIVE Concat(_)
Concat(ss) == IF ss = <<>> THEN <<>> ELSE Head(ss) \o Concat(Tail(ss))

SeqsUpTo(S, n) == UNION {[1..k -> S] : k \in 0..n}

\* all the orders in which the elements of a finite set can be visited
RECURSIVE Orders(_)
Orders(S) ==
    IF S = {} THEN {<<>>}
    ELSE UNION {{<<x>> \o o : o \in Orders(S \ {x})} : x \in S}

Swap(s, i, j) == [s EXCEPT ![i] = s[j], ![j] = s[i]]

\* TLC evaluates the arguments of an operator when they are first used; a
\* loop written as a recursive operator tests Computed(x) before it goes
\* on, so that x is computed in that iteration and not in a later one
Computed(x) == Len(x) >= 0

(***************************************************************************)
(* commitFilter (src/commit_filter.go).  Go visits the keys of a map in an *)
(* unspecified order, chosen anew for every range statement: keyOrders     *)
(* gives, for each expanded commit, the order in which its range visits    *)
(* the keys.                                                               *)
(***************************************************************************)
\* lines 15-21: every commit followed by its SubCommits
expandCommits(cs) ==
    Concat([i \in 1..Len(cs) |-> <<cs[i]>> \o cs[i].SubCommits])

\* lines 47-57: some allowed value equals str
valueExists(str, values, noCaseSensitive) ==
    \E k \in 1..Len(values) :
        (IF noCaseSensitive THEN ToLower(values[k]) ELSE values[k]) = str

\* a variant of the loop without its breaks: a pair that fails clears
\* include, and a later pair that holds sets it again
RECURSIVE filterIncludeNoBreak(_, _, _, _, _)
filterIncludeNoBreak(commit, filters, noCaseSensitive, ord, include) ==
    IF ord = <<>> THEN include
    ELSE LET key == Head(ord)
             prop == dotGetCommit(commit, key)
             str == IF noCaseSensitive THEN ToLower(prop.val) ELSE prop.val
             pass == /\ prop.ok
                     /\ prop.kind = "string"
                     /\ valueExists(str, filters[key], noCaseSensitive)
         IN  filterIncludeNoBreak(commit, filters, noCaseSensitive, Tail(ord),
                                  pass)

\* lines 30-65: the loop over the filters, keys visited in the order ord
RECURSIVE filterInclude(_, _, _, _, _)
filterInclude(commit, filters, noCaseSensitive, ord, include) ==
    IF ord = <<>> THEN include
    ELSE LET key == Head(ord)
             prop == dotGetCommit(commit, key)
             str == IF noCaseSensitive THEN ToLower(prop.val) ELSE prop.val
         IN  IF ~prop.ok THEN FALSE
             ELSE IF prop.kind # "string" THEN FALSE
             ELSE IF ~valueExists(str, filters[key], noCaseSensitive) THEN FALSE
             ELSE filterInclude(commit, filters, noCaseSensitive, Tail(ord), TRUE)

\* lines 23-70 for one expanded commit
commitIncluded(commit, filters, noCaseSensitive, ord) ==
    filterInclude(commit, filters, noCaseSensitive, ord, DOMAIN filters = {})

\* lines 7-73
commitFilter(cs, filters, noCaseSensitive, keyOrders) ==
    LET expandedCommits == expandCommits(cs)
        kept == {i \in 1..Len(expandedCommits) :
                    commitIncluded(expandedCommits[i], filters, noCaseSensitive,
                                   keyOrders[i])}
        RECURSIVE collect(_, _)
        collect(i, res) ==
            IF i > Len(expandedCommits) THEN res
            ELSE collect(i + 1, IF i \in kept
                                THEN Append(res, expandedCommits[i]) ELSE res)
    IN  collect(1, <<>>)

(***************************************************************************)
(* The comparison functions Extract hands to the sort package              *)
(* (src/commit_extractor.go).  A sort is configured by cfg:                *)
(* [kind, opts, order].                                                    *)
(***************************************************************************)
Custom == <<"Custom">>

\* lines 136-141: order[t] = i for every entry of CommitGroupTitleOrder
\* (a later entry overwrites an earlier one with the same title)
RECURSIVE orderLoop(_, _, _)
orderLoop(titleOrder, i, order) ==
    IF i > Len(titleOrder) THEN order
    ELSE orderLoop(titleOrder, i + 1, (titleOrder[i] :> (i - 1)) @@ order)

orderMap(opts) ==
    IF opts.CommitGroupSortBy = Custom
    THEN orderLoop(opts.CommitGroupTitleOrder, 1, <<>>)
    ELSE <<>>

\* order[t] of a Go map[string]int: 0 for a missing key
orderAt(order, t) == IF t \in DOMAIN order THEN order[t] ELSE 0

\* a variant without the "Custom" branch of line 149
groupLessNoCustom(opts, order, gi, gj) ==
    LET a == dotGetGroup(gi, opts.CommitGroupSortBy)
        b == dotGetGroup(gj, opts.CommitGroupSortBy)
        r == compareLess(a, b)
    IN  IF ~a.ok THEN FALSE
        ELSE IF ~b.ok THEN FALSE
        ELSE IF r.err THEN FALSE
        ELSE r.res

\* lines 147-172: the less function of the group sort
groupLess(opts, order, gi, gj) ==
    IF opts.CommitGroupSortBy = Custom
    THEN orderAt(order, gi.RawTitle) < orderAt(order, gj.RawTitle)
    ELSE LET a == dotGetGroup(gi, opts.CommitGroupSortBy)
             b == dotGetGroup(gj, opts.CommitGroupSortBy)
             r == compareLess(a, b)
         IN  IF ~a.ok THEN FALSE
             ELSE IF ~b.ok THEN FALSE
             ELSE IF r.err THEN FALSE
             ELSE r.res

\* lines 181-202: the less function of the commit sort
commitLess(opts, ci, cj) ==
    LET a == dotGetCommit(ci, opts.CommitSortBy)
        b == dotGetCommit(cj, opts.CommitSortBy)
        r == compareLess(a, b)
    IN  IF ~a.ok THEN FALSE
        ELSE IF ~b.ok THEN FALSE
        ELSE IF r.err THEN FALSE
        ELSE r.res

\* lines 208-210 and 215-217: the less function of the note sorts
titleLess(x, y) == StrLess(ToLower(x.Title), ToLower(y.Title))

less(cfg, x, y) ==
    CASE cfg.kind = "groups" -> groupLess(cfg.opts, cfg.order, x, y)
      [] cfg.kind = "commits" -> commitLess(cfg.opts, x, y)
      [] cfg.kind = "titles" -> titleLess(x, y)

(***************************************************************************)
(* Go's sort package, as called by Extract.  Indices are Go's (from 0);    *)
(* element i of data is data[i + 1].                                       *)
(***************************************************************************)
swap(data, i, j) == Swap(data, i + 1, j + 1)

\* insertionSort_func: the inner loop, moving data[j] down to its place
RECURSIVE insertionInner(_, _, _, _)
insertionInner(cfg, data, j, a) ==
    IF Computed(data) /\ j > a /\ less(cfg, data[j + 1], data[j])
    THEN insertionInner(cfg, swap(data, j, j - 1), j - 1, a)
    ELSE data

RECURSIVE insertionLoop(_, _, _, _, _)
insertionLoop(cfg, data, i, a, b) ==
    IF Computed(data) /\ i < b
    THEN insertionLoop(cfg, insertionInner(cfg, data, i, a), i + 1, a, b)
    ELSE data

\* insertionSort_func(data, a, b): sorts data[a:b]
insertionSort(cfg, data, a, b) == insertionLoop(cfg, data, a + 1, a, b)

\* sort.Slice on n <= 12 elements is one insertion sort of the whole slice
\* (pdqsort_func; the model never sorts more groups than that)
sortSlice(cfg, data) == insertionSort(cfg, data, 0, Len(data))

\* the block size of stable_func
blockSize == 20

\* rotate_func(data, a, m, b): x u v y becomes x v u y, u = data[a:m],
\* v = data[m:b]
rotate(data, a, m, b) ==
    [k \in 1..Len(data) |->
        IF k - 1 < a \/ k - 1 >= b THEN data[k]
        ELSE IF k - 1 < a + (b - m) THEN data[k + (m - a)]
        ELSE data[k - (b - m)]]

\* symMerge_func, m - a = 1: binary search for the lowest index i of
\* data[m:b] such that data[i] >= data[a]
RECURSIVE searchUp(_, _, _, _, _)
searchUp(cfg, data, a, i, j) ==
    IF i < j
    THEN LET h == (i + j) \div 2
         IN  IF less(cfg, data[h + 1], data[a + 1])
             THEN searchUp(cfg, data, a, h + 1, j)
             ELSE searchUp(cfg, data, a, i, h)
    ELSE i

RECURSIVE swapUp(_, _, _)
swapUp(data, k, i) ==
    IF Computed(data) /\ k < i - 1
    THEN swapUp(swap(data, k, k + 1), k + 1, i)
    ELSE data

\* symMerge_func, b - m = 1: binary search for the lowest index i of
\* data[a:m] such that data[i] > data[m]
RECURSIVE searchDown(_, _, _, _, _)
searchDown(cfg, data, m, i, j) ==
    IF i < j
    THEN LET h == (i + j) \div 2
         IN  IF ~less(cfg, data[m + 1], data[h + 1])
             THEN searchDown(cfg, data, m, h + 1, j)
             ELSE searchDown(cfg, data, m, i, h)
    ELSE i

RECURSIVE swapDown(_, _, _)
swapDown(data, k, i) ==
    IF Computed(data) /\ k > i
    THEN swapDown(swap(data, k, k - 1), k - 1, i)
    ELSE data

\* symMerge_func, the general case: the binary search for start
RECURSIVE searchSym(_, _, _, _, _)
searchSym(cfg, data, p, start, r) ==
    IF start < r
    THEN LET c == (start + r) \div 2
         IN  IF ~less(cfg, data[p - c + 1], data[c + 1])
             THEN searchSym(cfg, data, p, c + 1, r)
             ELSE searchSym(cfg, data, p, start, c)
    ELSE start

RECURSIVE symMerge(_, _, _, _, _)

\* symMerge_func, the general case: start, found by the search between
\* the bounds that the longer side gives
symStart(cfg, data, a, m, b, mid, n) ==
    searchSym(cfg, data, n - 1, IF m > mid THEN n - b ELSE a,
              IF m > mid THEN mid ELSE m)

\* symMerge_func, the general case: the merge of data[a:start] with
\* data[start:mid]
symMergeLeft(cfg, data, a, start, mid) ==
    IF Computed(data) /\ a < start /\ start < mid
    THEN symMerge(cfg, data, a, start, mid)
    ELSE data

\* symMerge_func, the general case: the merge of data[mid:end] with
\* data[end:b]
symMergeRight(cfg, data, mid, end, b) ==
    IF Computed(data) /\ mid < end /\ end < b
    THEN symMerge(cfg, data, mid, end, b)
    ELSE data

\* symMerge_func, the general case from the rotation on
symMergeAround(cfg, data, a, m, b, mid, start, end) ==
    symMergeRight(cfg,
        symMergeLeft(cfg,
            IF start < m /\ m < end THEN rotate(data, start, m, end) ELSE data,
            a, start, mid),
        mid, end, b)

\* symMerge_func, the general case with mid, n and start known
symMergeFrom(cfg, data, a, m, b, mid, n, start) ==
    symMergeAround(cfg, data, a, m, b, mid, start, n - start)

\* symMerge_func(data, a, m, b): merges the sorted data[a:m] and data[m:b]
symMerge(cfg, data, a, m, b) ==
    IF m - a = 1
    THEN swapUp(data, a, searchUp(cfg, data, a, m, b))
    ELSE IF b - m = 1
    THEN swapDown(data, m, searchDown(cfg, data, m, a, m))
    ELSE symMergeFrom(cfg, data, a, m, b, (a + b) \div 2, (a + b) \div 2 + m,
                      symStart(cfg, data, a, m, b, (a + b) \div 2,
                               (a + b) \div 2 + m))

\* stable_func: the first loop, an insertion sort of every block
RECURSIVE stableBlocks(_, _, _, _)
stableBlocks(cfg, data, a, b) ==
    IF Computed(data) /\ b <= Len(data)
    THEN stableBlocks(cfg, insertionSort(cfg, data, a, b), b, b + blockSize)
    ELSE insertionSort(cfg, data, a, Len(data))

\* stable_func: one pass of merges of neighbouring blocks of size bs
RECURSIVE stablePass(_, _, _, _, _)
stablePass(cfg, data, bs, a, b) ==
    IF Computed(data) /\ b <= Len(data)
    THEN stablePass(cfg, symMerge(cfg, data, a, a + bs, b), bs, b, b + 2 * bs)
    ELSE IF a + bs < Len(data)
    THEN symMerge(cfg, data, a, a + bs, Len(data))
    ELSE data

RECURSIVE stableMerges(_, _, _)
stableMerges(cfg, data, bs) ==
    IF Computed(data) /\ bs < Len(data)
    THEN stableMerges(cfg, stablePass(cfg, data, bs, 0, 2 * bs), 2 * bs)
    ELSE data

\* sort.SliceStable
sortSliceStable(cfg, data) ==
    stableMerges(cfg, stableBlocks(cfg, data, 0, blockSize), blockSize)

(***************************************************************************)
(* commitExtractor (src/commit_extractor.go).                              *)
(***************************************************************************)
\* lines 110-129: the raw group-by value and the title of its group
commitGroupTitle(commit, opts) ==
    LET title == dotGetCommit(commit, opts.CommitGroupBy)
    IN  IF title.ok /\ title.kind = "string"
        THEN [raw |-> title.val,
              ttl |-> IF title.val \in DOMAIN opts.CommitGroupTitleMaps
                      THEN opts.CommitGroupTitleMaps[title.val]
                      ELSE StringsTitle(title.val)]
        ELSE [raw |-> sEmpty, ttl |-> sEmpty]

\* a variant that compares the titles as they are, whatever noCaseSensitive
findGroupExact(groups, raw, noCaseSensitive) ==
    LET match == {k \in 1..Len(groups) : groups[k].RawTitle = raw}
    IN  IF match = {} THEN 0 ELSE CHOOSE k \in match : \A l \in match : l <= k

\* lines 58-71: the index of the last group whose RawTitle matches raw
\* (0: none), case folded when noCaseSensitive
findGroup(groups, raw, noCaseSensitive) ==
    LET match == {k \in 1..Len(groups) :
                    (IF noCaseSensitive THEN ToLower(groups[k].RawTitle)
                     ELSE groups[k].RawTitle)
                    = (IF noCaseSensitive THEN ToLower(raw) ELSE raw)}
    IN  IF match = {} THEN 0 ELSE CHOOSE k \in match : \A l \in match : l <= k

\* lines 52-82
processCommitGroups(groups, commit, noCaseSensitive, opts) ==
    LET t == commitGroupTitle(commit, opts)
        g == findGroup(groups, t.raw, noCaseSensitive)
    IN  IF g # 0
        THEN [groups EXCEPT ![g].Commits = Append(@, commit)]
        ELSE IF t.raw # sEmpty
        THEN Append(groups, [RawTitle |-> t.raw, Title |-> t.ttl,
                             Commits |-> <<commit>>])
        ELSE groups

\* lines 92-108: the note joins every group of its title, or opens one
appendNoteToNoteGroups(groups, note) ==
    IF \E k \in 1..Len(groups) : groups[k].Title = note.Title
    THEN [k \in 1..Len(groups) |->
            IF groups[k].Title = note.Title
            THEN [groups[k] EXCEPT !.Notes = Append(@, note)]
            ELSE groups[k]]
    ELSE Append(groups, [Title |-> note.Title, Notes |-> <<note>>])

\* lines 84-90
RECURSIVE processNoteGroups(_, _)
processNoteGroups(groups, notes) ==
    IF notes = <<>> THEN groups
    ELSE processNoteGroups(appendNoteToNoteGroups(groups, Head(notes)),
                           Tail(notes))

\* a variant of the loop without the continue of line 29
RECURSIVE classifyLoopNoContinue(_, _)
classifyLoopNoContinue(cs, acc) ==
    IF cs = <<>> THEN acc
    ELSE LET commit == Head(cs)
             m == IF commit.Merge # Nil THEN Append(acc.merge, commit)
                  ELSE acc.merge
             r == IF commit.Revert # Nil THEN Append(acc.revert, commit)
                  ELSE acc.revert
         IN  classifyLoopNoContinue(Tail(cs), [merge |-> m, revert |-> r])

\* lines 26-36: the loop over the unexpanded input; acc = [merge, revert]
RECURSIVE classifyLoop(_, _)
classifyLoop(cs, acc) ==
    IF cs = <<>> THEN acc
    ELSE LET commit == Head(cs)
         IN  IF commit.Merge # Nil
             THEN classifyLoop(Tail(cs),
                               [acc EXCEPT !.merge = Append(@, commit)])
             ELSE IF commit.Revert # Nil
             THEN classifyLoop(Tail(cs),
                               [acc EXCEPT !.revert = Append(@, commit)])
             ELSE classifyLoop(Tail(cs), acc)

\* lines 38-44: the loop over the filtered commits; acc = [cg, ng]
RECURSIVE groupLoop(_, _, _)
groupLoop(filtered, opts, acc) ==
    IF Computed(acc.cg) /\ Computed(acc.ng) /\ filtered # <<>>
    THEN groupLoop(Tail(filtered), opts,
            [cg |-> IF Head(filtered).Merge = Nil /\ Head(filtered).Revert = Nil
                    THEN processCommitGroups(acc.cg, Head(filtered),
                                             opts.NoCaseSensitive, opts)
                    ELSE acc.cg,
             ng |-> processNoteGroups(acc.ng, Head(filtered).Notes)])
    ELSE acc

\* lines 131-204
sortCommitGroups(groups, opts) ==
    LET sorted == sortSlice([kind |-> "groups", opts |-> opts,
                             order |-> orderMap(opts)], groups)
    IN  [k \in 1..Len(sorted) |->
            [sorted[k] EXCEPT !.Commits =
                sortSliceStable([kind |-> "commits", opts |-> opts,
                                 order |-> <<>>], @)]]

\* lines 206-219
sortNoteGroups(groups) ==
    LET cfg == [kind |-> "titles", opts |-> <<>>, order |-> <<>>]
        sorted == sortSlice(cfg, groups)
    IN  [k \in 1..Len(sorted) |->
            [sorted[k] EXCEPT !.Notes = sortSlice(cfg, @)]]

\* lines 18-50: [filteredCommits, commitGroups, mergeCommits,
\* revertCommits, noteGroups]
Extract(cs, opts, keyOrders) ==
    LET filtered == commitFilter(cs, opts.CommitFilters,
                                 opts.NoCaseSensitive, keyOrders)
        acc == groupLoop(filtered, opts, [cg |-> <<>>, ng |-> <<>>])
        cl == classifyLoop(cs, [merge |-> <<>>, revert |-> <<>>])
    IN  [filteredCommits |-> filtered,
         commitGroups |-> sortCommitGroups(acc.cg, opts),
         mergeCommits |-> cl.merge,
         revertCommits |-> cl.revert,
         noteGroups |-> sortNoteGroups(acc.ng)]

(***************************************************************************)
(* commitParser (src/unnamed/part_000).                                    *)
(* A line of text (a subject, a line of a body) is modelled by what the    *)
(* parser's compiled patterns find in it:                                  *)
(*   text       the line itself                                            *)
(*   fence      the index in fenceTypes of the marker the line starts      *)
(*              with (0 "```", 1 "~~~", 2 four spaces, 3 a tab), or -1     *)
(*   hdr        the Type bound from reHeader's match, or Nil               *)
(*   merge, revert   whether reMerge, reRevert match                       *)
(*   note       [Title, Body] of reNotes' match, or NoNote                 *)
(*   refs       reRef's matches, as [Action, Source, Ref]                  *)
(*   issues     reIssue's matches (every match of reRef holds one)         *)
(*   mentions   reMention's matches (the domain of an e-mail address is    *)
(*              one)                                                       *)
(*   coauthors, signers   reCoAuthor's and reSignOff's matches             *)
(* The configured patterns bind no JiraIssueID, so no Jira lookup is made. *)
(***************************************************************************)
Line(text, fence, hdr, note, refs, issues, mentions, coauthors, signers) ==
    [text |-> text, fence |-> fence, hdr |-> hdr, merge |-> FALSE,
     revert |-> FALSE, note |-> note, refs |-> refs, issues |-> issues,
     mentions |-> mentions, coauthors |-> coauthors, signers |-> signers]

NoNote == [Title |-> "", Body |-> ""]

\* a nil *Commit
NilCommit == [isNil |-> TRUE]

Ref(action, source, ref) == [Action |-> action, Source |-> source, Ref |-> ref]

\* lines 502-509: the number of fenceTypes
NumFenceTypes == 4

\* strings.Index(input, fenceTypes[i]) == 0
startsWithFence(line, i) == line.fence = i

\* lines 525-539: mdFenceDetector.Update, the loop from fenceTypes[i] on
RECURSIVE updateLoop(_, _, _)
updateLoop(fence, line, i) ==
    IF i >= NumFenceTypes THEN fence
    ELSE IF fence < 0
    THEN IF startsWithFence(line, i) THEN i
         ELSE updateLoop(fence, line, i + 1)
    ELSE IF startsWithFence(line, i) /\ i = fence THEN -1
         ELSE updateLoop(fence, line, i + 1)

fenceUpdate(fence, line) == updateLoop(fence, line, 0)

\* lines 521-523
InCodeblock(fence) == fence > -1

\* lines 388-404: the issues that no reference collected so far holds
RECURSIVE issueLoop(_, _)
issueLoop(issues, refs) ==
    IF issues = <<>> THEN refs
    ELSE LET duplicate == \E k \in 1..Len(refs) : refs[k].Ref = Head(issues)
         IN  issueLoop(Tail(issues),
                       IF duplicate THEN refs
                       ELSE Append(refs, Ref("", "", Head(issues))))

\* lines 374-407
parseRefs(line) == issueLoop(line.issues, line.refs)

\* lines 433-442
parseMentions(line) == line.mentions

\* lines 409-419
parseSigners(line) == line.signers

\* lines 421-431
parseCoAuthors(line) == line.coauthors

\* the entries of arr that no earlier entry equals
RECURSIVE uniqLoop(_, _)
uniqLoop(rest, arr) ==
    IF rest = <<>> THEN arr
    ELSE uniqLoop(Tail(rest),
                  IF \E k \in 1..Len(arr) : arr[k] = Head(rest) THEN arr
                  ELSE Append(arr, Head(rest)))

\* lines 444-460: equal means equal Ref, Action and Source
uniqRefs(refs) == uniqLoop(refs, <<>>)

\* lines 462-478
uniqMentions(mentions) == uniqLoop(mentions, <<>>)

\* line 137: &Commit{}
EmptyCommit ==
    [Hash |-> Nil, Author |-> Nil, Committer |-> Nil, Header |-> "",
     Type |-> "", Merge |-> Nil, Revert |-> Nil, Refs |-> <<>>,
     Mentions |-> <<>>, CoAuthors |-> <<>>, Signers |-> <<>>, Notes |-> <<>>,
     Body |-> <<>>, TrimmedBody |-> <<>>, ChangedFiles |-> <<>>,
     SubCommits |-> <<>>,
     \* not fields of Commit: the places in the body of the lines kept in
     \* TrimmedBody, and of the lines extractLineMetadata found something in
     keptLines |-> <<>>, metaLines |-> {}]

\* lines 179-186: the value is long \t short
parseHash(value) == [Long |-> value[1], Short |-> value[2]]

Digits == <<"0", "1", "2", "3", "4", "5", "6", "7", "8", "9">>

\* strconv.Atoi on a string of characters: [ok, val]
RECURSIVE atoiLoop(_, _)
atoiLoop(str, acc) ==
    IF str = <<>> THEN [ok |-> TRUE, val |-> acc]
    ELSE IF \E d \in 1..10 : Digits[d] = Head(str)
    THEN atoiLoop(Tail(str),
                  10 * acc + (CHOOSE d \in 1..10 : Digits[d] = Head(str)) - 1)
    ELSE [ok |-> FALSE, val |-> 0]

Atoi(str) == IF str = <<>> THEN [ok |-> FALSE, val |-> 0] ELSE atoiLoop(str, 0)

\* lines 188-200: name \t email \t timestamp; a timestamp that is no
\* number gives the date 0
parseAuthor(value) ==
    LET ts == Atoi(value[3])
    IN  [Name |-> value[1], Email |-> value[2],
         Date |-> IF ts.ok THEN ts.val ELSE 0]

\* lines 202-210
parseCommitter(value) == parseAuthor(value)

\* lines 212-250
processHeader(commit, input) ==
    [commit EXCEPT
        !.Header = input.text,
        !.Type = IF input.hdr # Nil THEN input.hdr ELSE @,
        !.Merge = IF input.merge THEN "merge" ELSE @,
        !.Revert = IF input.revert THEN "revert" ELSE @,
        !.Refs = parseRefs(input),
        !.Mentions = parseMentions(input)]

\* lines 252-280: [commit, meta]
extractLineMetadata(commit, line) ==
    LET refs == parseRefs(line)
        mentions == parseMentions(line)
        coAuthors == parseCoAuthors(line)
        signers == parseSigners(line)
    IN  [commit |-> [commit EXCEPT !.Refs = @ \o refs,
                                   !.Mentions = @ \o mentions,
                                   !.CoAuthors = @ \o coAuthors,
                                   !.Signers = @ \o signers],
         meta |-> Len(refs) > 0 \/ Len(mentions) > 0 \/ Len(coAuthors) > 0
                    \/ Len(signers) > 0]

\* an empty line
BlankLine == Line("", -1, Nil, NoNote, <<>>, <<>>, <<>>, <<>>, <<>>)

\* the place of the first line of input that is not blank (0: none)
firstText(input) ==
    IF \A k \in 1..Len(input) : input[k].text = "" THEN 0
    ELSE CHOOSE k \in 1..Len(input) :
            /\ input[k].text # ""
            /\ \A i \in 1..(k - 1) : input[i].text = ""

\* line 291: reNotes is anchored at the start of the text and skips
\* leading white space, so ReplaceAllString empties a note that is the
\* first text of the body, with the blank lines before it, and no other
stripNotes(input) ==
    IF firstText(input) # 0 /\ input[firstText(input)].note # NoNote
    THEN <<BlankLine>> \o SubSeq(input, firstText(input) + 1, Len(input))
    ELSE input

\* lines 294-319: the sub-commit of a line that matches reHeader
subCommitOf(commit, i) ==
    [EmptyCommit EXCEPT
        !.Header = i.text,
        !.Hash = commit.Hash,
        !.Author = commit.Author,
        !.Committer = commit.Committer,
        !.ChangedFiles = commit.ChangedFiles,
        !.Type = i.hdr,
        !.Refs = parseRefs(i),
        !.Mentions = parseMentions(i)]

\* lines 289-321: the sub-commits of the body
subCommitsOf(commit, input) ==
    LET inputs == stripNotes(input)
        matching == SelectSeq(inputs, LAMBDA i : i.hdr # Nil)
    IN  [k \in 1..Len(matching) |-> subCommitOf(commit, matching[k])]

\* a variant that forgets trim at every line
trimAtLineReset(inNote, trim) == FALSE

\* lines 333-335: trim is cleared at a line unless a note is open
trimAtLine(inNote, trim) == IF ~inNote THEN FALSE ELSE trim

\* lines 332-362: one turn of the loop over the lines of the body;
\* st = [commit, inNote, trim, fence], k the place of the line
scanLine(st, line, k) ==
    LET trim0 == trimAtLine(st.inNote, st.trim)
        fence == fenceUpdate(st.fence, line)
        ex == extractLineMetadata(st.commit, line)
        found == ~InCodeblock(fence) /\ ex.meta
        c1 == IF ~InCodeblock(fence)
              THEN [ex.commit EXCEPT !.metaLines =
                        IF ex.meta THEN @ \cup {k} ELSE @]
              ELSE st.commit
        trim1 == IF found THEN TRUE ELSE trim0
        inNote1 == IF found THEN FALSE ELSE st.inNote
        isNote == line.note # NoNote
        c2 == IF isNote
              THEN [c1 EXCEPT !.Notes = Append(@, [Title |-> line.note.Title,
                                                    Body |-> <<line.note.Body>>])]
              ELSE IF inNote1
              THEN [c1 EXCEPT !.Notes[Len(c1.Notes)].Body = Append(@, line.text)]
              ELSE c1
        trim2 == IF isNote THEN TRUE ELSE trim1
        c3 == IF ~trim2
              THEN [c2 EXCEPT !.TrimmedBody = Append(@, line.text),
                              !.keptLines = Append(@, k)]
              ELSE c2
    IN  [commit |-> c3, inNote |-> isNote \/ inNote1, trim |-> trim2,
         fence |-> fence]

RECURSIVE scanLoop(_, _, _)
scanLoop(st, lines, k) ==
    IF k > Len(lines) THEN st
    ELSE LET st1 == scanLine(st, lines[k], k)
         IN  IF Computed(st1.commit.Notes) THEN scanLoop(st1, lines, k + 1)
             ELSE st1

\* a line without its leading white space
TrimLeft(text) == IF text = "\tFixes #42" THEN "Fixes #42" ELSE text

RECURSIVE dropBlankHead(_)
dropBlankHead(lines) ==
    IF lines # <<>> /\ Head(lines) = "" THEN dropBlankHead(Tail(lines))
    ELSE lines

RECURSIVE dropBlankTail(_)
dropBlankTail(lines) ==
    IF lines # <<>> /\ lines[Len(lines)] = ""
    THEN dropBlankTail(SubSeq(lines, 1, Len(lines) - 1))
    ELSE lines

\* the first line of a non-empty list without its leading white space
trimFirst(lines) ==
    IF lines = <<>> THEN lines ELSE [lines EXCEPT ![1] = TrimLeft(@)]

\* strings.TrimSpace on the lines joined by "\n": blank lines at both
\* ends go, and the white space that starts the first line left (no line
\* of the model ends in white space)
TrimSpace(lines) == trimFirst(dropBlankTail(dropBlankHead(lines)))

\* lines 368-372
trimSpaceInNotes(commit) ==
    [commit EXCEPT !.Notes =
        [n \in 1..Len(commit.Notes) |->
            [commit.Notes[n] EXCEPT !.Body = TrimSpace(commit.Notes[n].Body)]]]

\* lines 364-365: the end of processBody
trimBody(commit) ==
    trimSpaceInNotes([commit EXCEPT !.TrimmedBody = TrimSpace(@)])

\* lines 282-366
processBody(commit, input, multilineCommit) ==
    LET c1 == [commit EXCEPT
                !.Body = [k \in 1..Len(input) |-> input[k].text],
                !.SubCommits = IF multilineCommit
                               THEN @ \o subCommitsOf(commit, input) ELSE @,
                !.Notes = <<>>]
    IN  trimBody(scanLoop([commit |-> c1, inNote |-> FALSE, trim |-> FALSE,
                           fence |-> -1], input, 1).commit)

\* lines 136-160: the fields of the record, in the order of logFormat,
\* then the removal of the duplicates
parseFields(record, multilineCommit) ==
    LET c1 == [EmptyCommit EXCEPT !.Hash = parseHash(record.hash),
                                  !.Author = parseAuthor(record.author),
                                  !.Committer = parseCommitter(record.committer)]
        c2 == processHeader(c1, record.subject)
        c3 == processBody(c2, record.body, multilineCommit)
    IN  [c3 EXCEPT !.Refs = uniqRefs(@), !.Mentions = uniqMentions(@)]

\* lines 172-176: out is the list of the lines of diff-tree's output
\* (strings.Split leaves an empty last entry after the last newline)
withChangedFiles(commit, out) ==
    IF Len(out) > 0
    THEN [commit EXCEPT !.ChangedFiles = out \o <<"">>]
    ELSE commit

(***************************************************************************)
(* The inputs of Extract: commits as the parser produces them.             *)
(***************************************************************************)
Shape(type, scope, merge, revert, jira, notes, subs) ==
    [id |-> 0, Type |-> type, Scope |-> scope, Merge |-> merge,
     Revert |-> revert, JiraIssue |-> jira,
     Notes |-> [k \in 1..Len(notes) |-> [id |-> 0, Title |-> notes[k]]],
     SubCommits |-> subs]

\* a sub-commit has neither Merge nor Revert nor Notes (processBody sets
\* none of them)
SubShape(type, scope) == Shape(type, scope, Nil, Nil, Nil, <<>>, <<>>)

\* "feat: ..." has no scope
cFeat == Shape(sFeat, sEmpty, Nil, Nil, Nil, <<>>, <<>>)
cFeatCap == Shape(sFeatCap, sACap, Nil, Nil, sA, <<sB>>, <<>>)
cFix == Shape(sFix, sA, Nil, Nil, sB, <<>>, <<>>)
cMergeRevert == Shape(sFeat, sA, "merge", "revert", Nil, <<>>, <<>>)
cRevert == Shape(sFix, sB, Nil, "revert", Nil, <<sA>>, <<>>)
\* a squash merge: the commit is a merge, its body holds two headers
cSquash == Shape(sEmpty, sEmpty, "merge", Nil, Nil, <<sA, sB>>,
                 <<SubShape(sFeat, sA), SubShape(sFix, sB)>>)

CommitPool == {cFeat, cFeatCap, cFix, cMergeRevert, cRevert, cSquash}

\* the commit of shape sh at place i of the input: every commit, sub-commit
\* and note is an object of its own
mkCommit(sh, i) ==
    [sh EXCEPT !.id = 10 * i,
               !.Notes = [k \in 1..Len(sh.Notes) |->
                            [sh.Notes[k] EXCEPT !.id = 10 * i + k]],
               !.SubCommits = [k \in 1..Len(sh.SubCommits) |->
                                [sh.SubCommits[k] EXCEPT !.id = 10 * i + k]]]

mkCommits(shapes) == [i \in 1..Len(shapes) |-> mkCommit(shapes[i], i)]

\* the configuration every option is varied against
DefaultOpts ==
    [CommitFilters |-> <<>>, NoCaseSensitive |-> FALSE,
     CommitGroupBy |-> pType, CommitGroupTitleMaps |-> (sFix :> sBugFixes),
     CommitGroupSortBy |-> pRawTitle, CommitGroupTitleOrder |-> <<>>,
     CommitSortBy |-> pScope]

FilterChoices ==
    { <<>>,
      (pType :> <<sFeat, sFix>>),
      (pType :> <<>>),
      (pType :> <<sFeat>>) @@ (pScope :> <<sB, sA>>),
      (pType :> <<sFeatCap, sFix>>) @@ (pJiraSummary :> <<sA, sB>>),
      (pHash :> <<sA>>) @@ (pType :> <<sFeat, sFix>>),
      (pNope :> <<sA>>) }

TitleOrders == SeqsUpTo({sFeat, sFix}, MaxOrder)

OptionChoices ==
    {[DefaultOpts EXCEPT !.CommitFilters = f, !.NoCaseSensitive = n] :
        f \in FilterChoices, n \in BOOLEAN}
    \cup {[DefaultOpts EXCEPT !.CommitGroupBy = g, !.NoCaseSensitive = n,
                              !.CommitSortBy = c] :
            g \in {pType, pScope, pHash}, n \in BOOLEAN,
            c \in {pScope, pJiraSummary}}
    \cup {[DefaultOpts EXCEPT !.CommitGroupSortBy = gs] :
            gs \in {pTitle, pCommits, pNope}}
    \cup {[DefaultOpts EXCEPT !.CommitGroupSortBy = Custom,
                              !.CommitGroupTitleOrder = o,
                              !.NoCaseSensitive = n] :
            o \in TitleOrders, n \in BOOLEAN}

\* the configurations of the long inputs
LongOptionChoices ==
    {[DefaultOpts EXCEPT !.CommitGroupBy = g, !.CommitSortBy = c,
                         !.NoCaseSensitive = n] :
        g \in {pType, pScope}, c \in {pScope, pJiraSummary}, n \in BOOLEAN}

(***************************************************************************)
(* The inputs of Parse: the records of the output of git log.              *)
(***************************************************************************)
fixes42 == Ref("Fixes", "", "42")

lText == Line("more detail", -1, Nil, NoNote, <<>>, <<>>, <<>>, <<>>, <<>>)
lFixes == Line("Fixes #42", -1, Nil, NoNote, <<fixes42>>, <<"42">>, <<>>, <<>>, <<>>)
lIssue == Line("see #42 @bob", -1, Nil, NoNote, <<>>, <<"42">>, <<"bob">>, <<>>, <<>>)
lNote == Line("BREAKING CHANGE: old API removed", -1, Nil,
              [Title |-> "BREAKING CHANGE", Body |-> "old API removed"],
              <<>>, <<>>, <<>>, <<>>, <<>>)
\* a line of three backticks
lFence == Line("(three backticks)", 0, Nil, NoNote, <<>>, <<>>, <<>>, <<>>, <<>>)
lTabFixes == Line("\tFixes #42", 3, Nil, NoNote, <<fixes42>>, <<"42">>, <<>>, <<>>, <<>>)
lSub == Line("fix: y @bob @bob", -1, "fix", NoNote, <<>>, <<>>, <<"bob", "bob">>, <<>>, <<>>)
lSigned == Line("Signed-off-by: Al <al@x.org>", -1, Nil, NoNote, <<>>, <<>>, <<"x">>,
                <<>>, <<[Name |-> "Al", Email |-> "al@x.org"]>>)

BodyLines ==
    {lText, lFixes, lIssue, lNote, lFence, lTabFixes, lSub, lSigned, BlankLine}

sjFeat == Line("feat: x (Fixes #42) @bob", -1, "feat", NoNote, <<fixes42>>, <<"42">>,
               <<"bob">>, <<>>, <<>>)
sjPlain == Line("update", -1, Nil, NoNote, <<>>, <<>>, <<>>, <<>>, <<>>)
sjMerge == [Line("Merge pull request #7 from x", -1, Nil, NoNote, <<>>, <<"7">>, <<>>,
                 <<>>, <<>>) EXCEPT !.merge = TRUE]

Subjects == {sjFeat, sjPlain, sjMerge}

\* a record but for its hash
RecordShape(subject, body) ==
    [hash |-> <<0, 0>>, author |-> <<"alice", "alice@x.org", <<"1", "7", "0">>>>,
     committer |-> <<"carol", "carol@x.org", <<"1", "x">>>>,
     subject |-> subject, body |-> body]

\* every subject with every body of at most MaxBody lines
RichRecords ==
    {RecordShape(sj, b) : sj \in Subjects, b \in SeqsUpTo(BodyLines, MaxBody)}

\* the records of the logs of several records
PlainRecords ==
    {RecordShape(sjFeat, <<lSub, lFixes>>), RecordShape(sjMerge, <<>>),
     RecordShape(sjPlain, <<lNote, lText>>)}

\* the k-th record of a log has the hash 100 + k, short k
mkLog(shapes) ==
    [k \in 1..Len(shapes) |-> [shapes[k] EXCEPT !.hash = <<100 + k, k>>]]

Logs ==
    {mkLog(<<r>>) : r \in RichRecords}
    \cup {mkLog(l) : l \in SeqsUpTo(PlainRecords, MaxRecords)}

\* what diff-tree prints for a commit: nothing, or one path
DiffOutputs == {<<>>, <<"a.go">>}

(***************************************************************************)
(* State.                                                                  *)
(***************************************************************************)
VARIABLES
    \* Extract: the call's arguments and configuration
    commits, opts,
    \* Extract: "input" before the call, "extracted" after it
    estate,
    \* Extract: what the call computed
    filteredCommits, commitGroups, mergeCommits, revertCommits, noteGroups,
    \* Parse: the records git log prints, and Options.Processor (is one
    \* set) and Options.MultilineCommit
    records, popts,
    \* Parse: "start", "loop" (line 117), "done" (returned)
    ppc,
    \* Parse: the loop's i (from 1) and the slice commits of line 115
    pi, pcommits,
    \* Parse: what it returned, [isNil, commits, err]
    presult,
    \* Parse, for the claims: the calls of parseCommit made, the records
    \* whose commit was kept, and where a collaborator failed (-1: nowhere,
    \* 0: git log, k: diff-tree for record k)
    pparsed, pkept, pfailedAt

evars == <<commits, opts, estate, filteredCommits, commitGroups,
           mergeCommits, revertCommits, noteGroups>>

pvars == <<records, popts, ppc, pi, pcommits, presult, pparsed, pkept,
           pfailedAt>>

vars == <<evars, pvars>>

\* what Parse returns: the slice commits (isNil: the nil slice) and err
NotReturned == [isNil |-> TRUE, commits |-> <<>>, err |-> Nil]
Returned(cs) == [isNil |-> FALSE, commits |-> cs, err |-> Nil]
Failed(err) == [isNil |-> TRUE, commits |-> <<>>, err |-> err]

\* Parse is not running
IdleParse ==
    /\ records = <<>>
    /\ popts = [Processor |-> FALSE, MultilineCommit |-> FALSE]
    /\ ppc = "idle"
    /\ pi = 0
    /\ pcommits = <<>>
    /\ presult = NotReturned
    /\ pparsed = 0
    /\ pkept = 0
    /\ pfailedAt = -1

InitExtracted ==
    /\ IdleParse
    /\ estate = "input"
    /\ filteredCommits = <<>>
    /\ commitGroups = <<>>
    /\ mergeCommits = <<>>
    /\ revertCommits = <<>>
    /\ noteGroups = <<>>

InitExtract ==
    /\ commits \in {mkCommits(sh) : sh \in SeqsUpTo(CommitPool, MaxCommits)}
    /\ opts \in OptionChoices
    /\ InitExtracted

\* a run of PadLen equal commits followed by a short input
InitExtractLong ==
    /\ commits \in {mkCommits([i \in 1..PadLen |-> p] \o sh) :
                        p \in CommitPool, sh \in SeqsUpTo(CommitPool, MaxCommits)}
    /\ opts \in LongOptionChoices
    /\ InitExtracted

\* the orders in which the ranges over CommitFilters may visit its keys,
\* one for each expanded commit
KeyOrders == [1..Len(expandCommits(commits)) -> Orders(DOMAIN opts.CommitFilters)]

\* the results of Extract, stored
Extracts(r) ==
    /\ filteredCommits' = r.filteredCommits
    /\ commitGroups' = r.commitGroups
    /\ mergeCommits' = r.mergeCommits
    /\ revertCommits' = r.revertCommits
    /\ noteGroups' = r.noteGroups

\* one call of commitExtractor.Extract
DoExtract ==
    /\ estate = "input"
    /\ \E keyOrders \in KeyOrders : Extracts(Extract(commits, opts, keyOrders))
    /\ estate' = "extracted"
    /\ UNCHANGED <<commits, opts, pvars>>

NextExtract == DoExtract

SpecExtract == InitExtract /\ [][NextExtract]_vars

SpecExtractLong == InitExtractLong /\ [][NextExtract]_vars

(***************************************************************************)
(* commitParser.Parse (src/unnamed/part_000, lines 92-134), one action for *)
(* the call of git log and one for every turn of the loop of line 117.     *)
(***************************************************************************)
Init ==
    /\ commits = <<>>
    /\ opts = DefaultOpts
    /\ estate = "idle"
    /\ filteredCommits = <<>>
    /\ commitGroups = <<>>
    /\ mergeCommits = <<>>
    /\ revertCommits = <<>>
    /\ noteGroups = <<>>
    /\ records \in Logs
    /\ popts \in [Processor : BOOLEAN, MultilineCommit : BOOLEAN]
    /\ ppc = "start"
    /\ pi = 0
    /\ pcommits = <<>>
    /\ presult = NotReturned
    /\ pparsed = 0
    /\ pkept = 0
    /\ pfailedAt = -1

\* lines 106-110: git log fails
ExecLogFails ==
    /\ ppc = "start"
    /\ presult' = Failed("log")
    /\ pfailedAt' = 0
    /\ ppc' = "done"
    /\ UNCHANGED <<evars, records, popts, pi, pcommits, pparsed, pkept>>

\* lines 106-115: git log prints the records
ExecLogOk ==
    /\ ppc = "start"
    /\ pcommits' = [k \in 1..Len(records) |-> NilCommit]
    /\ pi' = 1
    /\ ppc' = "loop"
    /\ UNCHANGED <<evars, records, popts, presult, pparsed, pkept, pfailedAt>>

\* a variant that skips the record whose diff-tree fails and goes on
ParseCommitFailsSkipped ==
    /\ ppc = "loop"
    /\ pi <= Len(records)
    /\ pparsed' = pparsed + 1
    /\ pfailedAt' = pi
    /\ pi' = pi + 1
    /\ UNCHANGED <<evars, records, popts, ppc, pcommits, presult, pkept>>

\* lines 118-121 and 168-171: diff-tree fails for record i
ParseCommitFails ==
    /\ ppc = "loop"
    /\ pi <= Len(records)
    /\ pparsed' = pparsed + 1
    /\ presult' = Failed("diff-tree")
    /\ pfailedAt' = pi
    /\ ppc' = "done"
    /\ UNCHANGED <<evars, records, popts, pi, pcommits, pkept>>

\* lines 136-177: parseCommit of record i, diff-tree printing out
parseCommit(i, out) ==
    withChangedFiles(parseFields(records[i], popts.MultilineCommit), out)

\* lines 118-130: record i is parsed; there is no processor, or it
\* returns the commit
ParseCommitKept ==
    /\ ppc = "loop"
    /\ pi <= Len(records)
    /\ \E out \in DiffOutputs :
        pcommits' = [pcommits EXCEPT ![pi] = parseCommit(pi, out)]
    /\ pparsed' = pparsed + 1
    /\ pkept' = pkept + 1
    /\ pi' = pi + 1
    /\ UNCHANGED <<evars, records, popts, ppc, presult, pfailedAt>>

\* lines 118-127: record i is parsed; the processor returns nil
ParseCommitDropped ==
    /\ ppc = "loop"
    /\ pi <= Len(records)
    /\ popts.Processor
    /\ pparsed' = pparsed + 1
    /\ pi' = pi + 1
    /\ UNCHANGED <<evars, records, popts, ppc, pcommits, presult, pkept,
                   pfailedAt>>

\* line 133
Return ==
    /\ ppc = "loop"
    /\ pi > Len(records)
    /\ presult' = Returned(pcommits)
    /\ ppc' = "done"
    /\ UNCHANGED <<evars, records, popts, pi, pcommits, pparsed, pkept,
                   pfailedAt>>

Next ==
    \/ ExecLogFails
    \/ ExecLogOk
    \/ ParseCommitFails
    \/ ParseCommitKept
    \/ ParseCommitDropped
    \/ Return

Spec == Init /\ [][Next]_vars

(***************************************************************************)
(* Claims about commitFilter and Extract.                                  *)
(***************************************************************************)
Extracted == estate = "extracted"

NormCase(s) == IF opts.NoCaseSensitive THEN ToLower(s) ELSE s

\* the commit satisfies the pair (path, allowed values) of the filters
SatisfiesPair(c, path) ==
    LET p == dotGetCommit(c, path)
    IN  /\ p.ok
        /\ p.kind = "string"
        /\ \E v \in Range(opts.CommitFilters[path]) : NormCase(v) = NormCase(p.val)

SatisfiesAll(c) == \A path \in DOMAIN opts.CommitFilters : SatisfiesPair(c, path)

\* the place of the commit with this id in the filtered sequence
FilteredPlace(id) == CHOOSE i \in 1..Len(filteredCommits) : filteredCommits[i].id = id

\* C1: commitFilter returns exactly the expanded commits, in order, that
\* satisfy every (path, allowed values) pair, in whatever order the pairs
\* are visited; with no pair it returns every expanded commit.
C1_FilterLaw ==
    Extracted =>
        /\ filteredCommits = SelectSeq(expandCommits(commits), SatisfiesAll)
        /\ (DOMAIN opts.CommitFilters = {}
                => filteredCommits = expandCommits(commits))

\* two pairs, a sub-commit kept, a commit dropped
C1_Witness ==
    /\ Extracted
    /\ Cardinality(DOMAIN opts.CommitFilters) = 2
    /\ opts.NoCaseSensitive
    /\ \E i \in 1..Len(filteredCommits) : filteredCommits[i].id % 10 # 0
    /\ \E i \in 1..Len(filteredCommits) :
        filteredCommits[i].Type # ToLower(filteredCommits[i].Type)
    /\ Len(filteredCommits) + 2 <= Len(expandCommits(commits))

\* C2: mergeCommits is the input commits with a Merge, revertCommits the
\* input commits with a Revert and no Merge, both in input order and both
\* whatever the filters are.
C2_MergeRevert ==
    Extracted =>
        /\ mergeCommits = SelectSeq(commits, LAMBDA c : c.Merge # Nil)
        /\ revertCommits =
             SelectSeq(commits, LAMBDA c : c.Revert # Nil /\ c.Merge = Nil)

\* a commit with both is a merge only, and the filters drop a listed commit
C2_Witness ==
    /\ Extracted
    /\ \E i \in 1..Len(mergeCommits) : mergeCommits[i].Revert # Nil
    /\ Len(revertCommits) >= 1
    /\ DOMAIN opts.CommitFilters # {}
    /\ \E i \in 1..Len(mergeCommits) :
        \A k \in 1..Len(filteredCommits) : filteredCommits[k].id # mergeCommits[i].id

\* the group-by value of a commit: empty when the path does not resolve to
\* a string
GroupByValue(c) ==
    LET p == dotGetCommit(c, opts.CommitGroupBy)
    IN  IF p.ok /\ p.kind = "string" THEN p.val ELSE sEmpty

Groupable(c) == c.Merge = Nil /\ c.Revert = Nil /\ GroupByValue(c) # sEmpty

GroupsOf(id) ==
    {g \in 1..Len(commitGroups) :
        \E k \in 1..Len(commitGroups[g].Commits) : commitGroups[g].Commits[k].id = id}

\* C3: every filtered commit with neither Merge nor Revert and a non-empty
\* group-by value is in exactly one group; two such commits with equal
\* (case-normalized) values share their group; no two groups have equal
\* (case-normalized) RawTitle and no group has an empty RawTitle.
C3_Grouping ==
    Extracted =>
        /\ \A i \in 1..Len(filteredCommits) :
            Groupable(filteredCommits[i])
                => Cardinality(GroupsOf(filteredCommits[i].id)) = 1
        /\ \A i, j \in 1..Len(filteredCommits) :
            (/\ Groupable(filteredCommits[i])
             /\ Groupable(filteredCommits[j])
             /\ NormCase(GroupByValue(filteredCommits[i]))
                    = NormCase(GroupByValue(filteredCommits[j])))
                => GroupsOf(filteredCommits[i].id) = GroupsOf(filteredCommits[j].id)
        /\ \A g, h \in 1..Len(commitGroups) :
            g # h => NormCase(commitGroups[g].RawTitle)
                        # NormCase(commitGroups[h].RawTitle)
        /\ \A g \in 1..Len(commitGroups) : commitGroups[g].RawTitle # sEmpty

\* two groups, one of them holding commits whose values differ in case only,
\* and a filtered regular commit that is in no group
C3_Witness ==
    /\ Extracted
    /\ opts.NoCaseSensitive
    /\ Len(commitGroups) >= 2
    /\ \E g \in 1..Len(commitGroups) :
        \E k, l \in 1..Len(commitGroups[g].Commits) :
            GroupByValue(commitGroups[g].Commits[k])
                # GroupByValue(commitGroups[g].Commits[l])
    /\ \E i \in 1..Len(filteredCommits) :
        /\ filteredCommits[i].Merge = Nil
        /\ filteredCommits[i].Revert = Nil
        /\ GroupsOf(filteredCommits[i].id) = {}

SortValue(c) == dotGetCommit(c, opts.CommitSortBy)

\* C8: within every group, two commits with equal commit-sort values keep
\* the relative order they have in the filtered input.
C8_SortStable ==
    Extracted =>
        \A g \in 1..Len(commitGroups) :
            \A k, l \in 1..Len(commitGroups[g].Commits) :
                LET ck == commitGroups[g].Commits[k]
                    cl == commitGroups[g].Commits[l]
                IN  (/\ k < l
                     /\ SortValue(ck).kind = "string"
                     /\ SortValue(cl).kind = "string"
                     /\ SortValue(ck).val = SortValue(cl).val)
                        => FilteredPlace(ck.id) < FilteredPlace(cl.id)

\* the places (from 0) of a title in CommitGroupTitleOrder
TitlePlaces(t) ==
    {i - 1 : i \in {k \in 1..Len(opts.CommitGroupTitleOrder) :
                        opts.CommitGroupTitleOrder[k] = t}}

Max(S) == CHOOSE x \in S : \A y \in S : y <= x
Min(S) == CHOOSE x \in S : \A y \in S : x <= y

FirstPlace(t) == IF TitlePlaces(t) = {} THEN 0 ELSE Min(TitlePlaces(t))
LastPlace(t) == IF TitlePlaces(t) = {} THEN 0 ELSE Max(TitlePlaces(t))

IsCustom == opts.CommitGroupSortBy = Custom

\* C9 as stated: with "Custom" the groups come out in the order of the
\* index of their RawTitle in CommitGroupTitleOrder, the index of a title
\* being the place where it (first) occurs, and 0 for an absent title.
C9_OrderByFirstPlace ==
    (Extracted /\ IsCustom) =>
        \A g, h \in 1..Len(commitGroups) :
            FirstPlace(commitGroups[g].RawTitle) < FirstPlace(commitGroups[h].RawTitle)
                => g < h

\* C9 as amended: the index of a title is the place of its last occurrence
\* in CommitGroupTitleOrder, and 0 for an absent title.
C9_OrderByLastPlace ==
    (Extracted /\ IsCustom) =>
        \A g, h \in 1..Len(commitGroups) :
            LastPlace(commitGroups[g].RawTitle) < LastPlace(commitGroups[h].RawTitle)
                => g < h

\* two feat commits and a fix commit, order list [fix, feat]: [fix, feat]
C9_Witness ==
    /\ Extracted
    /\ IsCustom
    /\ opts.CommitGroupTitleOrder = <<sFix, sFeat>>
    /\ [i \in 1..Len(commits) |-> commits[i].Type] = <<sFeat, sFeat, sFix>>
    /\ [g \in 1..Len(commitGroups) |-> commitGroups[g].RawTitle] = <<sFix, sFeat>>
    /\ Len(commitGroups[2].Commits) = 2

(***************************************************************************)
(* Claims about Parse.                                                     *)
(***************************************************************************)
\* Parse returned without an error
Succeeded == ppc = "done" /\ presult.err = Nil

\* the places of the commits Parse has stored so far
Stored == {k \in 1..Len(pcommits) : pcommits[k] # NilCommit}

NoDuplicates(seq) == \A i, j \in 1..Len(seq) : i # j => seq[i] # seq[j]

IsBare(ref) == ref.Action = "" /\ ref.Source = ""

Deduplicated(c) ==
    /\ NoDuplicates(c.Refs)
    /\ \A i, j \in 1..Len(c.Refs) :
        (IsBare(c.Refs[i]) /\ c.Refs[j].Action # "")
            => c.Refs[i].Ref # c.Refs[j].Ref
    /\ NoDuplicates(c.Mentions)

\* C4: in every commit the parser produces, parent or sub-commit, Refs
\* holds no two entries with the same (Action, Source, Ref), no bare entry
\* with the Ref of an entry with an action, and Mentions holds no
\* duplicate.
C4_Deduplicated ==
    \A k \in Stored :
        /\ Deduplicated(pcommits[k])
        /\ \A n \in 1..Len(pcommits[k].SubCommits) :
            Deduplicated(pcommits[k].SubCommits[n])

\* line j of the body lies inside a block opened by a line of three
\* backticks and not closed yet
InsideBacktickFence(body, j) ==
    /\ body[j].fence # 0
    /\ Cardinality({i \in 1..(j - 1) : body[i].fence = 0}) % 2 = 1

\* C5: a body line inside an open block fenced by three backticks
\* contributes no Ref, Mention, CoAuthor or Signer and is present in
\* TrimmedBody, whatever precedes the fence.
C5_FenceAware ==
    \A k \in Stored :
        \A j \in 1..Len(records[k].body) :
            InsideBacktickFence(records[k].body, j)
                => /\ j \notin pcommits[k].metaLines
                   /\ j \in Range(pcommits[k].keptLines)

\* C6: with a processor, Parse returns exactly the commits the processor
\* returned: no entry is nil and there are as many as records kept.
C6_NoNilEntry ==
    (Succeeded /\ popts.Processor) =>
        /\ \A k \in 1..Len(presult.commits) : presult.commits[k] # NilCommit
        /\ Len(presult.commits) = pkept

\* C7: with MultilineCommit, every sub-commit of a returned commit has the
\* Hash, Author, Committer and ChangedFiles its parent has at the return.
C7_SubCommitInherits ==
    (Succeeded /\ popts.MultilineCommit) =>
        \A k \in 1..Len(presult.commits) :
            LET c == presult.commits[k]
            IN  c # NilCommit =>
                    \A n \in 1..Len(c.SubCommits) :
                        /\ c.SubCommits[n].Hash = c.Hash
                        /\ c.SubCommits[n].Author = c.Author
                        /\ c.SubCommits[n].Committer = c.Committer
                        /\ c.SubCommits[n].ChangedFiles = c.ChangedFiles

\* C10: when git log fails, or diff-tree fails for a record, Parse has
\* returned the error and the nil slice, and no record after the failing
\* one was parsed; it returns an error in no other case.
C10_FailsAtomically ==
    /\ pfailedAt # -1 =>
        /\ ppc = "done"
        /\ presult.err = (IF pfailedAt = 0 THEN "log" ELSE "diff-tree")
        /\ presult.isNil
        /\ presult.commits = <<>>
        /\ pparsed = pfailedAt
    /\ presult.err # Nil => pfailedAt # -1

\* diff-tree fails for the second of three records, after a commit was
\* stored for the first
C10_Witness ==
    /\ ppc = "done"
    /\ Len(records) = 3
    /\ pfailedAt = 2
    /\ pcommits[1] # NilCommit
    /\ presult.err = "diff-tree"

\* the line matches the note-keyword pattern
IsNote(line) == line.note # NoNote

\* the line holds a reference, a mention, a co-author or a sign-off
HasMeta(line) ==
    \/ line.refs # <<>>
    \/ line.issues # <<>>
    \/ line.mentions # <<>>
    \/ line.coauthors # <<>>
    \/ line.signers # <<>>

\* the marker of the fenced block open after a line, given the one open
\* before it (-1: none): a marker opens a block outside of one, and only
\* the marker that opened a block closes it
FenceStep(open, line) ==
    IF open = -1 THEN line.fence
    ELSE IF line.fence = open THEN -1
    ELSE open

RECURSIVE FenceAfter(_, _)
FenceAfter(body, k) ==
    IF k = 0 THEN -1 ELSE FenceStep(FenceAfter(body, k - 1), body[k])

\* line i is outside a fenced block and yields a reference, mention,
\* co-author or sign-off
Closes(body, i) == FenceAfter(body, i) = -1 /\ HasMeta(body[i])

NoteLines(body) == {j \in 1..Len(body) : IsNote(body[j])}

\* the lines that continue the note opened at line j
Continues(body, j) ==
    {k \in (j + 1)..Len(body) :
        \A i \in (j + 1)..k : ~IsNote(body[i]) /\ ~Closes(body, i)}

\* the body of the note opened at line j: its own text and the lines that
\* continue it, white space trimmed at both ends
NoteBody(body, j) ==
    TrimSpace(<<body[j].note.Body>>
              \o [i \in 1..Cardinality(Continues(body, j)) |-> body[j + i].text])

\* the body "Fixes #42 / BREAKING CHANGE: old API removed / more detail"
ScenarioBody == <<lFixes, lNote, lText>>

ScenarioNotes ==
    <<[Title |-> "BREAKING CHANGE",
       Body |-> <<"old API removed", "more detail">>]>>

\* C11: every line that matches the note pattern opens a Note; the lines
\* after it that do not match the pattern join the body of that Note, up
\* to the first line outside a fenced block that yields a reference,
\* mention, co-author or sign-off; no line of a Note is kept in the trimmed
\* body; the scenario's body gives one Note of two lines and an empty
\* trimmed body.
C11_NoteContinuation ==
    \A k \in Stored :
        LET body == records[k].body
            c == pcommits[k]
        IN  /\ Len(c.Notes) = Cardinality(NoteLines(body))
            /\ \A j \in NoteLines(body) :
                LET n == Cardinality({i \in NoteLines(body) : i <= j})
                IN  /\ c.Notes[n].Title = body[j].note.Title
                    /\ c.Notes[n].Body = NoteBody(body, j)
                    /\ \A l \in {j} \cup Continues(body, j) :
                        l \notin Range(c.keptLines)
            /\ body = ScenarioBody =>
                c.Notes = ScenarioNotes /\ c.TrimmedBody = <<>>

\* Parse has returned and the scenario's body was parsed: the line after
\* the note line went to the Note and not to the trimmed body
C11_Witness ==
    /\ \E k \in Stored :
        /\ records[k].body = ScenarioBody
        /\ pcommits[k].Notes = ScenarioNotes
        /\ pcommits[k].TrimmedBody = <<>>
    /\ ppc = "done"
====
